---- MODULE Spec2Model ----
(***************************************************************************)
(* Model of examples/smart_light/components/wifi_config/wifi_config_esp.c: *)
(* the ESP Wi-Fi glue of the qcloud smart_light example.                   *)
(*                                                                         *)
(* Two tasks act on the module's state: the application task, which calls  *)
(* the exposed functions one at a time (wifi_wait_event blocks it), and    *)
(* the vendor event-loop task, which runs the two registered callbacks.    *)
(* The FreeRTOS event group is modelled by what xEventGroupWaitBits,       *)
(* xEventGroupSetBits and xEventGroupClearBits do to its bits and to a     *)
(* task blocked on it. A callback runs to completion in one step (the      *)
(* event-loop task runs them one after the other); a failed configASSERT   *)
(* or ESP_ERROR_CHECK aborts the program, after which nothing runs.        *)
(***************************************************************************)
EXTENDS Integers, Sequences, FiniteSets

\* ---------------------------------------------------------------- bounds
\* timeout_ms is drawn from {0, TimeoutStepMs, ..., MaxTimeoutSteps * TimeoutStepMs}
MaxTimeoutSteps == 4

\* ------------------------------------------------------------- constants
CONNECTED_BIT == 1
ESPTOUCH_DONE_BIT == 2
STA_DISCONNECTED_BIT_dup == ESPTOUCH_DONE_BIT
STA_DISCONNECTED_BIT == 4
\* FreeRTOS tick period in ms (CONFIG_FREERTOS_HZ = 100), the divisor of timeout_ms
portTICK_RATE_MS == 10
TimeoutStepMs == 5

NULL == 0
ESP_OK == "ESP_OK"
ESP_ERR_NO_MEM == "ESP_ERR_NO_MEM"
ESP_ERR_INVALID_STATE == "ESP_ERR_INVALID_STATE"
\* the statuses a vendor driver call may return
EspErrors == {"ESP_FAIL", ESP_ERR_NO_MEM}
EspStatus == {ESP_OK} \cup EspErrors

EVENT_WIFI_CONNECTED == "EVENT_WIFI_CONNECTED"
EVENT_WIFI_DISCONNECTED == "EVENT_WIFI_DISCONNECTED"
EVENT_SMARTCONFIG_STOP == "EVENT_SMARTCONFIG_STOP"
EVENT_WAIT_TIMEOUT == "EVENT_WAIT_TIMEOUT"
EventCodes == {EVENT_WIFI_CONNECTED, EVENT_WIFI_DISCONNECTED, EVENT_SMARTCONFIG_STOP, EVENT_WAIT_TIMEOUT}

\* the bits every wait and every reset names: CONNECTED_BIT | ESPTOUCH_DONE_BIT | STA_DISCONNECTED_BIT
WaitMask == {CONNECTED_BIT, ESPTOUCH_DONE_BIT, STA_DISCONNECTED_BIT}

\* the ids the vendor dispatcher delivers under WIFI_EVENT; SCAN_DONE stands for
\* every id the switch has no case for
WifiEventIds == {"WIFI_EVENT_STA_START", "WIFI_EVENT_STA_CONNECTED", "WIFI_EVENT_STA_DISCONNECTED",
                 "WIFI_EVENT_AP_START", "WIFI_EVENT_AP_STOP", "WIFI_EVENT_AP_STACONNECTED",
                 "WIFI_EVENT_AP_STADISCONNECTED", "SYSTEM_EVENT_AP_STAIPASSIGNED", "WIFI_EVENT_SCAN_DONE"}
IP_EVENT_STA_GOT_IP == "IP_EVENT_STA_GOT_IP"

TimeoutsMs == {k * TimeoutStepMs : k \in 0..MaxTimeoutSteps}

\* ----------------------------------------------------------------- state
VARIABLES
    sg_wifi_event_group,    \* the handle: NULL or the id of the group created last
    event_bits,             \* the bits of the group the handle names
    sg_wifi_init_done,
    sg_wifi_sta_connected,
    loop_created,           \* the vendor default event loop exists
    ip_registered,          \* ip_event_handler is registered for IP_EVENT_STA_GOT_IP
    wifi_registered,        \* _wifi_event_handler_new is registered for every WIFI_EVENT
    pc,                     \* application task: idle, blocked, ready, timedout, aborted
    remaining,              \* ticks left of the wait the task is blocked in
    uxBits,                 \* the bits handed to the task when a set bit unblocked it
    last,                   \* history: what the step into this state was (an exposed call
                            \* that ended, with its result and vendor calls; a callback)
    order,                  \* history: which of got-IP and station-disconnected was handled last
    creates,                \* history: how many event groups xEventGroupCreate has created
    sinceRet,               \* history: callbacks since the last wifi_wait_event returned
    sinceEnd                \* history: callbacks since the last wait ended (was unblocked or read the bits)

vars == <<sg_wifi_event_group, event_bits, sg_wifi_init_done, sg_wifi_sta_connected, loop_created,
          ip_registered, wifi_registered, pc, remaining, uxBits, last, order,
          creates, sinceRet, sinceEnd>>

initvars == <<sg_wifi_event_group, sg_wifi_init_done, loop_created, creates>>
regvars == <<ip_registered, wifi_registered>>
waitvars == <<remaining, uxBits>>
histvars == <<order, sinceRet, sinceEnd>>

\* --------------------------------------------------------- vendor calls
Call(f, a, rc) == [f |-> f, a |-> a, rc |-> rc]
\* a step of an exposed function: the call, and what the code does when it fails:
\* "return" the status, "ignore" it (log only), or "abort" (ESP_ERROR_CHECK)
Step(f, a, onfail) == [f |-> f, a |-> a, onfail |-> onfail]

\* every way a sequence of steps can run: the calls made, how the sequence was left
\* ("cont": ran to its end) and the status it was left with
RECURSIVE Runs(_)
Runs(steps) ==
    IF steps = <<>> THEN {[calls |-> <<>>, exit |-> "cont", rc |-> ESP_OK]}
    ELSE LET s == Head(steps) IN
         UNION {IF r = ESP_OK \/ s.onfail = "ignore"
                THEN {[x EXCEPT !.calls = <<Call(s.f, s.a, r)>> \o @] : x \in Runs(Tail(steps))}
                ELSE {[calls |-> <<Call(s.f, s.a, r)>>, exit |-> s.onfail, rc |-> r]}
                : r \in EspStatus}

\* history records
Ended(fn, rc, calls) == [fn |-> fn, id |-> "", ms |-> 0, rc |-> rc, calls |-> calls]
Handled(fn, id) == [fn |-> fn, id |-> id, ms |-> 0, rc |-> "", calls |-> <<>>]
Other == [fn |-> "", id |-> "", ms |-> 0, rc |-> "", calls |-> <<>>]

Init ==
    /\ sg_wifi_event_group = NULL
    /\ event_bits = {}
    /\ sg_wifi_init_done = FALSE
    /\ sg_wifi_sta_connected = FALSE
    /\ loop_created = FALSE
    /\ ip_registered = FALSE
    /\ wifi_registered = FALSE
    /\ pc = "idle"
    /\ remaining = 0
    /\ uxBits = {}
    /\ last = Other
    /\ order = "none"
    /\ creates = 0
    /\ sinceRet = "nowait"
    /\ sinceEnd = "nowait"

\* ------------------------------------------------- one-time initialization
\* every way the block guarded by sg_wifi_init_done can run from the current state.
\* esp_netif_init's status is dropped; a NULL group returns ESP_ERR_NO_MEM; a failed
\* esp_event_loop_create_default aborts (ESP_ERROR_CHECK), and the vendor fails it with
\* ESP_ERR_INVALID_STATE when the default loop exists; a failed esp_wifi_init returns
\* its status before sg_wifi_init_done is set. esp_netif_create_default_wifi_ap/_sta
\* return no status and are left out of the calls.
OneTimeBlock ==
    IF sg_wifi_init_done
    THEN {[calls |-> <<>>, exit |-> "cont", rc |-> ESP_OK, grp |-> sg_wifi_event_group,
           bits |-> event_bits, loop |-> loop_created, done |-> TRUE, creates |-> creates]}
    ELSE UNION {
        LET c0 == <<Call("esp_netif_init", "", r0)>>
            fresh == creates + 1
            left(calls, exit, rc, done, loop) ==
                [calls |-> calls, exit |-> exit, rc |-> rc, grp |-> fresh, bits |-> {},
                 loop |-> loop, done |-> done, creates |-> fresh]
        IN  {[calls |-> c0, exit |-> "return", rc |-> ESP_ERR_NO_MEM, grp |-> NULL,
              bits |-> {}, loop |-> loop_created, done |-> FALSE, creates |-> creates]}
            \cup
            (IF loop_created
             THEN {left(c0 \o <<Call("esp_event_loop_create_default", "", ESP_ERR_INVALID_STATE)>>,
                        "abort", ESP_ERR_INVALID_STATE, FALSE, TRUE)}
             ELSE UNION {
                 LET c1 == c0 \o <<Call("esp_event_loop_create_default", "", r1)>> IN
                 IF r1 # ESP_OK
                 THEN {left(c1, "abort", r1, FALSE, FALSE)}
                 ELSE {LET c2 == c1 \o <<Call("esp_wifi_init", "", r2)>> IN
                       IF r2 # ESP_OK
                       THEN left(c2, "return", r2, FALSE, TRUE)
                       ELSE left(c2, "cont", ESP_OK, TRUE, TRUE)
                       : r2 \in EspStatus}
                 : r1 \in EspStatus})
        : r0 \in EspStatus}

\* the vendor calls of wifi_ap_init after the one-time block
wifi_ap_init_steps ==
    <<Step("esp_wifi_disconnect", "", "ignore"),
      Step("esp_wifi_stop", "", "ignore"),
      Step("esp_event_handler_register", IP_EVENT_STA_GOT_IP, "abort"),
      Step("esp_event_handler_register", "WIFI_EVENT", "abort"),
      Step("esp_wifi_set_storage", "WIFI_STORAGE_RAM", "return"),
      Step("esp_wifi_set_mode", "WIFI_MODE_AP", "return"),
      Step("esp_wifi_set_config", "ESP_IF_WIFI_AP", "return")>>

\* the vendor calls of wifi_sta_init after the one-time block: it registers no callback
wifi_sta_init_steps ==
    <<Step("esp_wifi_stop", "", "ignore"),
      Step("esp_wifi_set_storage", "WIFI_STORAGE_FLASH", "return"),
      Step("esp_wifi_set_mode", "WIFI_MODE_STA", "return")>>

wifi_ap_init_runs == Runs(wifi_ap_init_steps)
wifi_sta_init_runs == Runs(wifi_sta_init_steps)

\* esp_event_handler_register(base/id, ...) returned ESP_OK among the calls
Registers(calls, what) ==
    \E i \in 1..Len(calls) :
        calls[i].f = "esp_event_handler_register" /\ calls[i].a = what /\ calls[i].rc = ESP_OK

\* xEventGroupClearBits(sg_wifi_event_group, CONNECTED_BIT | ESPTOUCH_DONE_BIT | STA_DISCONNECTED_BIT)
ClearAll(bits) == bits \ WaitMask

\* how an exposed function leaves the application task
Leave(fn, exit, rc, calls) ==
    /\ pc' = IF exit = "abort" THEN "aborted" ELSE "idle"
    /\ last' = Ended(fn, IF exit = "abort" THEN "abort" ELSE rc, calls)

\* wifi_ap_init and wifi_sta_init: the one-time block, then the reset of
\* sg_wifi_sta_connected and of the bits, then the function's own vendor calls
wifi_init(fn, runs) ==
    /\ pc = "idle"
    /\ \E o \in OneTimeBlock :
        /\ sg_wifi_event_group' = o.grp
        /\ loop_created' = o.loop
        /\ sg_wifi_init_done' = o.done
        /\ creates' = o.creates
        /\ IF o.exit # "cont"
           THEN /\ event_bits' = o.bits
                /\ Leave(fn, o.exit, o.rc, o.calls)
                /\ UNCHANGED <<sg_wifi_sta_connected, ip_registered, wifi_registered>>
           ELSE \E t \in runs :
                /\ sg_wifi_sta_connected' = FALSE
                /\ event_bits' = ClearAll(o.bits)
                /\ ip_registered' = (ip_registered \/ Registers(t.calls, IP_EVENT_STA_GOT_IP))
                /\ wifi_registered' = (wifi_registered \/ Registers(t.calls, "WIFI_EVENT"))
                /\ Leave(fn, t.exit, t.rc, o.calls \o t.calls)
    /\ UNCHANGED <<waitvars, histvars>>

wifi_ap_init == wifi_init("wifi_ap_init", wifi_ap_init_runs)

wifi_sta_init == wifi_init("wifi_sta_init", wifi_sta_init_runs)

\* ------------------------------------------------------ forwarding calls
\* an exposed function that only makes vendor calls: it touches no state of the module
Forward(fn, runs) ==
    /\ pc = "idle"
    /\ \E t \in runs : Leave(fn, t.exit, t.rc, t.calls)
    /\ UNCHANGED <<event_bits, sg_wifi_sta_connected, initvars, regvars, waitvars, histvars>>

wifi_ap_sta_connect_steps ==
    <<Step("esp_wifi_set_storage", "WIFI_STORAGE_FLASH", "return"),
      Step("esp_wifi_set_mode", "WIFI_MODE_APSTA", "return"),
      Step("esp_wifi_set_config", "ESP_IF_WIFI_STA", "return"),
      Step("esp_wifi_connect", "", "return")>>

wifi_sta_connect_steps_swapped ==
    <<Step("esp_wifi_set_mode", "WIFI_MODE_STA", "return"),
      Step("esp_wifi_set_storage", "WIFI_STORAGE_FLASH", "return"),
      Step("esp_wifi_set_config", "ESP_IF_WIFI_STA", "return"),
      Step("esp_wifi_connect", "", "return")>>

wifi_sta_connect_steps ==
    <<Step("esp_wifi_set_storage", "WIFI_STORAGE_FLASH", "return"),
      Step("esp_wifi_set_mode", "WIFI_MODE_STA", "return"),
      Step("esp_wifi_set_config", "ESP_IF_WIFI_STA", "return"),
      Step("esp_wifi_connect", "", "return")>>

\* a failed esp_wifi_set_mode is logged and 0 is returned all the same
wifi_stop_softap_steps == <<Step("esp_wifi_set_mode", "WIFI_MODE_STA", "ignore")>>

wifi_start_smartconfig_steps_unchecked ==
    <<Step("esp_smartconfig_set_type", "SC_TYPE_ESPTOUCH_AIRKISS", "ignore")>>

\* esp_smartconfig_start(_smartconfig_event_cb) is commented out: no callback is registered
wifi_start_smartconfig_steps ==
    <<Step("esp_smartconfig_set_type", "SC_TYPE_ESPTOUCH_AIRKISS", "return")>>

wifi_start_running_steps == <<Step("esp_wifi_start", "", "return")>>

\* every way each forwarding function's vendor calls can run
wifi_ap_sta_connect_runs == Runs(wifi_ap_sta_connect_steps)
wifi_sta_connect_runs == Runs(wifi_sta_connect_steps)
wifi_stop_softap_runs == Runs(wifi_stop_softap_steps)
wifi_start_smartconfig_runs == Runs(wifi_start_smartconfig_steps)
wifi_start_running_runs == Runs(wifi_start_running_steps)

wifi_ap_sta_connect == Forward("wifi_ap_sta_connect", wifi_ap_sta_connect_runs)

wifi_sta_connect == Forward("wifi_sta_connect", wifi_sta_connect_runs)

wifi_stop_softap == Forward("wifi_stop_softap", wifi_stop_softap_runs)

wifi_start_smartconfig == Forward("wifi_start_smartconfig", wifi_start_smartconfig_runs)

wifi_start_running == Forward("wifi_start_running", wifi_start_running_runs)

\* ret = esp_smartconfig_stop(); the bits are cleared whatever ret is; return ret.
\* xEventGroupClearBits on a NULL handle fails its configASSERT: the task aborts.
wifi_stop_smartconfig ==
    /\ pc = "idle"
    /\ \E ret \in EspStatus :
        LET calls == <<Call("esp_smartconfig_stop", "", ret)>> IN
        IF sg_wifi_event_group = NULL
        THEN /\ Leave("wifi_stop_smartconfig", "abort", ret, calls)
             /\ UNCHANGED event_bits
        ELSE /\ Leave("wifi_stop_smartconfig", "return", ret, calls)
             /\ event_bits' = ClearAll(event_bits)
    /\ UNCHANGED <<sg_wifi_sta_connected, initvars, regvars, waitvars, histvars>>

is_wifi_sta_connected ==
    /\ pc = "idle"
    /\ last' = Ended("is_wifi_sta_connected", IF sg_wifi_sta_connected THEN "true" ELSE "false", <<>>)
    /\ UNCHANGED <<event_bits, sg_wifi_sta_connected, initvars, regvars, pc, waitvars, histvars>>

\* ------------------------------------------------------------ event group
\* xEventGroupWaitBits(..., xClearOnExit = true, xWaitForAllBits = false, ...):
\* the wait is over when any one of the bits waited for is set
WaitConditionMet_all(bits) == WaitMask \subseteq bits

WaitConditionMet(bits) == bits \cap WaitMask # {}

\* xClearOnExit = true: the bits waited for are cleared when the wait is met
ClearOnExit_kept(bits) == bits

ClearOnExit(bits) == bits \ WaitMask

\* the return code wifi_wait_event makes of the bits xEventGroupWaitBits returned
WaitResult_swapped(ux) ==
    IF STA_DISCONNECTED_BIT \in ux THEN EVENT_WIFI_DISCONNECTED
    ELSE IF CONNECTED_BIT \in ux THEN EVENT_WIFI_CONNECTED
    ELSE IF ESPTOUCH_DONE_BIT \in ux THEN EVENT_SMARTCONFIG_STOP
    ELSE EVENT_WAIT_TIMEOUT

WaitResult(ux) ==
    IF CONNECTED_BIT \in ux THEN EVENT_WIFI_CONNECTED
    ELSE IF STA_DISCONNECTED_BIT \in ux THEN EVENT_WIFI_DISCONNECTED
    ELSE IF ESPTOUCH_DONE_BIT \in ux THEN EVENT_SMARTCONFIG_STOP
    ELSE EVENT_WAIT_TIMEOUT

\* history record of a return of wifi_wait_event; how: "at once", "unblocked", "timed out"
WaitEnded(how, ms, rc) == [fn |-> "wifi_wait_event", id |-> how, ms |-> ms, rc |-> rc, calls |-> <<>>]

\* wifi_wait_event is called. xEventGroupWaitBits on a NULL handle fails its
\* configASSERT (the task aborts). With a bit already set it returns at once and
\* clears the bits; with a timeout of 0 ticks it returns the bits as they are;
\* otherwise the task blocks for timeout_ms / portTICK_RATE_MS ticks.
wifi_wait_event ==
    /\ pc = "idle"
    /\ \E timeout_ms \in TimeoutsMs :
        LET xTicksToWait == timeout_ms \div portTICK_RATE_MS IN
        IF sg_wifi_event_group = NULL
        THEN /\ pc' = "aborted"
             /\ last' = WaitEnded("at once", timeout_ms, "abort")
             /\ UNCHANGED <<event_bits, remaining, sinceRet, sinceEnd>>
        ELSE IF WaitConditionMet(event_bits) \/ xTicksToWait = 0
        THEN /\ event_bits' = IF WaitConditionMet(event_bits) THEN ClearOnExit(event_bits) ELSE event_bits
             /\ last' = WaitEnded("at once", timeout_ms, WaitResult(event_bits))
             /\ sinceRet' = "quiet"
             /\ sinceEnd' = "quiet"
             /\ UNCHANGED <<pc, remaining>>
        ELSE /\ pc' = "blocked"
             /\ remaining' = xTicksToWait
             /\ last' = Other
             /\ UNCHANGED <<event_bits, sinceRet, sinceEnd>>
    /\ UNCHANGED <<sg_wifi_sta_connected, initvars, regvars, uxBits, order>>

\* a tick of the FreeRTOS clock while the task is blocked; at the last tick the
\* task leaves the group's waiting list and becomes ready to run
Tick ==
    /\ pc = "blocked"
    /\ remaining' = remaining - 1
    /\ pc' = IF remaining = 1 THEN "timedout" ELSE "blocked"
    /\ last' = Other
    /\ UNCHANGED <<event_bits, sg_wifi_sta_connected, initvars, regvars, uxBits, histvars>>

\* the blocked task runs again and wifi_wait_event returns: with the bits handed
\* over by the xEventGroupSetBits that unblocked it, or, after a timeout, with the
\* bits as they are now (cleared if a bit was set between the timeout and now)
WaitReturn ==
    /\ \/ /\ pc = "ready"
          /\ last' = WaitEnded("unblocked", 0, WaitResult(uxBits))
          /\ UNCHANGED <<event_bits, sinceEnd>>
       \/ /\ pc = "timedout"
          /\ event_bits' = IF WaitConditionMet(event_bits) THEN ClearOnExit(event_bits) ELSE event_bits
          /\ last' = WaitEnded("timed out", 0, WaitResult(event_bits))
          /\ sinceEnd' = "quiet"
    /\ pc' = "idle"
    /\ uxBits' = {}
    /\ sinceRet' = "quiet"
    /\ UNCHANGED <<sg_wifi_sta_connected, initvars, regvars, remaining, order>>

\* ---------------------------------------------------------------- callbacks
\* a callback that clears `clear` (xEventGroupClearBits) and then sets `set`
\* (xEventGroupSetBits). Setting a bit that meets the wait of the blocked task
\* unblocks it, hands it the bits as they are then, and clears the bits it waited for.
Callback(clear, set) ==
    LET bits == (event_bits \ clear) \cup set
        wake == pc = "blocked" /\ set # {} /\ WaitConditionMet(bits)
    IN  /\ event_bits' = IF wake THEN ClearOnExit(bits) ELSE bits
        /\ pc' = IF wake THEN "ready" ELSE pc
        /\ uxBits' = IF wake THEN bits ELSE uxBits
        /\ remaining' = IF wake THEN 0 ELSE remaining
        /\ sinceRet' = IF sinceRet = "nowait" THEN "nowait" ELSE "event"
        /\ sinceEnd' = IF wake THEN "quiet" ELSE IF sinceEnd = "nowait" THEN "nowait" ELSE "event"

ip_event_handler_marks ==
    /\ ip_registered
    /\ pc # "aborted"
    /\ Callback({}, {CONNECTED_BIT})
    /\ sg_wifi_sta_connected' = TRUE
    /\ last' = Handled("ip_event_handler", IP_EVENT_STA_GOT_IP)
    /\ order' = "gotip"
    /\ UNCHANGED <<initvars, regvars>>

\* the vendor loop dispatches IP_EVENT_STA_GOT_IP to ip_event_handler
ip_event_handler ==
    /\ ip_registered
    /\ pc # "aborted"
    /\ Callback({}, {CONNECTED_BIT})
    /\ last' = Handled("ip_event_handler", IP_EVENT_STA_GOT_IP)
    /\ order' = "gotip"
    /\ UNCHANGED <<sg_wifi_sta_connected, initvars, regvars>>

\* the bits the switch of _wifi_event_handler_new clears and sets for an event id
WifiEventClears(event_id) ==
    IF event_id = "WIFI_EVENT_STA_DISCONNECTED" THEN {CONNECTED_BIT} ELSE {}

WifiEventSets_ap(event_id) ==
    IF event_id \in {"WIFI_EVENT_STA_DISCONNECTED", "WIFI_EVENT_AP_STADISCONNECTED"}
    THEN {STA_DISCONNECTED_BIT} ELSE {}

WifiEventSets(event_id) ==
    IF event_id = "WIFI_EVENT_STA_DISCONNECTED" THEN {STA_DISCONNECTED_BIT} ELSE {}

\* the vendor loop dispatches a WIFI_EVENT to _wifi_event_handler_new
wifi_event_handler_new ==
    /\ wifi_registered
    /\ pc # "aborted"
    /\ \E event_id \in WifiEventIds :
        /\ Callback(WifiEventClears(event_id), WifiEventSets(event_id))
        /\ sg_wifi_sta_connected' =
               IF event_id = "WIFI_EVENT_STA_DISCONNECTED" THEN FALSE ELSE sg_wifi_sta_connected
        /\ last' = Handled("_wifi_event_handler_new", event_id)
        /\ order' = IF event_id = "WIFI_EVENT_STA_DISCONNECTED" THEN "disc" ELSE order
    /\ UNCHANGED <<initvars, regvars>>

Next ==
    \/ wifi_ap_init
    \/ wifi_sta_init
    \/ wifi_ap_sta_connect
    \/ wifi_sta_connect
    \/ wifi_stop_softap
    \/ wifi_start_smartconfig
    \/ wifi_stop_smartconfig
    \/ wifi_start_running
    \/ is_wifi_sta_connected
    \/ wifi_wait_event
    \/ Tick
    \/ WaitReturn
    \/ ip_event_handler
    \/ wifi_event_handler_new

Spec == Init /\ [][Next]_vars

\* the tick interrupt keeps the clock running and the scheduler runs a ready task
LiveSpec == Spec /\ WF_vars(Tick) /\ WF_vars(WaitReturn)

\* the inputs of wifi_wait_event: the module initialised by wifi_ap_init, the group
\* holding any combination of the three bits
FnInit ==
    /\ sg_wifi_event_group = 1
    /\ event_bits \in SUBSET WaitMask
    /\ sg_wifi_init_done = TRUE
    /\ sg_wifi_sta_connected = FALSE
    /\ loop_created = TRUE
    /\ ip_registered = TRUE
    /\ wifi_registered = TRUE
    /\ pc = "idle"
    /\ remaining = 0
    /\ uxBits = {}
    /\ last = Other
    /\ order = "none"
    /\ creates = 1
    /\ sinceRet = "nowait"
    /\ sinceEnd = "nowait"

FnSpec == FnInit /\ [][Next]_vars

\* ------------------------------------------------------------------ claims
InitFns == {"wifi_ap_init", "wifi_sta_init"}
ConnectFns == {"wifi_ap_sta_connect", "wifi_sta_connect"}
ForwardingFns == InitFns \cup ConnectFns \cup
    {"wifi_stop_softap", "wifi_start_smartconfig", "wifi_stop_smartconfig", "wifi_start_running"}

\* the step is a return of wifi_wait_event
WaitReturns == last'.fn = "wifi_wait_event" /\ last'.rc \in EventCodes
\* the bits that return was handed by xEventGroupWaitBits
Observed == IF pc = "ready" THEN uxBits ELSE event_bits

\* C1: wifi_wait_event returns one of the four codes, decided by the bits observed when
\* the wait ends: CONNECTED if CONNECTED_BIT is set; else DISCONNECTED if
\* STA_DISCONNECTED_BIT is set; else SMARTCONFIG_STOP if ESPTOUCH_DONE_BIT is set; else
\* TIMEOUT, which is returned iff none of the three bits was set.
C1_WaitResultTable ==
    [][last'.fn = "wifi_wait_event" /\ last'.rc # "abort" =>
        /\ last'.rc \in EventCodes
        /\ (last'.rc = EVENT_WIFI_CONNECTED) = (CONNECTED_BIT \in Observed)
        /\ (last'.rc = EVENT_WIFI_DISCONNECTED) =
               (CONNECTED_BIT \notin Observed /\ STA_DISCONNECTED_BIT \in Observed)
        /\ (last'.rc = EVENT_SMARTCONFIG_STOP) =
               (CONNECTED_BIT \notin Observed /\ STA_DISCONNECTED_BIT \notin Observed
                /\ ESPTOUCH_DONE_BIT \in Observed)
        /\ (last'.rc = EVENT_WAIT_TIMEOUT) = (Observed \cap WaitMask = {})]_vars

C1_Witness ==
    /\ last.fn = "wifi_wait_event"
    /\ last.rc = EVENT_SMARTCONFIG_STOP
    /\ event_bits = {}

\* C2: a wifi_wait_event called once the group exists returns: the task is never left
\* blocked while one of the three bits is set (any one bit ends the wait), a set bit
\* unblocks it in the callback's own step, and with no bit set it returns
\* EVENT_WAIT_TIMEOUT once timeout_ms / portTICK_RATE_MS ticks have elapsed, not before.
C2_BoundedWait ==
    /\ [](pc = "blocked" => event_bits \cap WaitMask = {})
    /\ [][pc = "blocked" /\ event_bits' \cap WaitMask # {} => FALSE]_vars
    /\ [][WaitReturns /\ last'.rc = EVENT_WAIT_TIMEOUT =>
            \/ pc = "timedout" /\ remaining = 0
            \/ pc = "idle" /\ last'.ms \div portTICK_RATE_MS = 0]_vars
    /\ [][pc = "timedout" /\ pc' = "idle" /\ event_bits \cap WaitMask = {} =>
            last'.rc = EVENT_WAIT_TIMEOUT]_vars
    /\ (pc \in {"blocked", "ready", "timedout"} ~> pc = "idle")

C2_Witness ==
    /\ last.fn = "wifi_wait_event"
    /\ last.rc = EVENT_WAIT_TIMEOUT
    /\ last.id = "timed out"
    /\ wifi_registered

\* C3: the one-time block runs at most once: the event group is created once and the
\* handle is never replaced.
C3_CreatedOnce == creates <= 1

\* C4: once wifi_ap_init or wifi_sta_init has returned ESP_OK, both callbacks are registered.
C4_RegisteredAfterInit ==
    (last.fn \in InitFns /\ last.rc = ESP_OK) => (ip_registered /\ wifi_registered)

\* the vendor calls of the two connect functions, in their order
ConnectOrder(fn) ==
    <<<<"esp_wifi_set_storage", "WIFI_STORAGE_FLASH">>,
      <<"esp_wifi_set_mode", IF fn = "wifi_sta_connect" THEN "WIFI_MODE_STA" ELSE "WIFI_MODE_APSTA">>,
      <<"esp_wifi_set_config", "ESP_IF_WIFI_STA">>,
      <<"esp_wifi_connect", "">>>>

\* C5: wifi_sta_connect and wifi_ap_sta_connect call set_storage(FLASH), set_mode
\* (STA / APSTA), set_config(STA), connect in that order, stop at the first status
\* other than ESP_OK and return it, return 0 iff all four succeeded, and change neither
\* the event bits nor sg_wifi_sta_connected.
C5_ConnectForwards ==
    [][last'.fn \in ConnectFns =>
        LET c == last'.calls
            n == Len(c)
        IN  /\ n \in 1..4
            /\ \A i \in 1..n : <<c[i].f, c[i].a>> = ConnectOrder(last'.fn)[i]
            /\ \A i \in 1..(n - 1) : c[i].rc = ESP_OK
            /\ last'.rc = c[n].rc
            /\ (last'.rc = ESP_OK) = (n = 4 /\ \A i \in 1..n : c[i].rc = ESP_OK)
            /\ UNCHANGED <<event_bits, sg_wifi_sta_connected>>]_vars

C5_Witness ==
    /\ last.fn = "wifi_sta_connect"
    /\ Len(last.calls) = 3
    /\ last.rc = "ESP_FAIL"
    /\ event_bits = {CONNECTED_BIT, STA_DISCONNECTED_BIT}

\* C6 as stated: whenever a vendor call made inside an exposed function returns a status
\* other than ESP_OK, the function returns that status.
C6_EveryStatusForwarded ==
    (last.fn \in ForwardingFns /\ last.rc # "abort") =>
        \A i \in 1..Len(last.calls) : last.calls[i].rc # ESP_OK => last.rc = last.calls[i].rc

\* the vendor calls whose status the code logs or drops
BestEffort(fn, f) ==
    \/ fn \in InitFns /\ f \in {"esp_netif_init", "esp_wifi_disconnect", "esp_wifi_stop"}
    \/ fn = "wifi_stop_softap" /\ f = "esp_wifi_set_mode"

\* C6 amended: the status of every failed vendor call is returned by the exposed
\* function, except esp_netif_init, esp_wifi_disconnect and esp_wifi_stop inside the two
\* init functions and esp_wifi_set_mode inside wifi_stop_softap, whose failure is only
\* logged or dropped; a function that returns ESP_OK made no other failing call.
C6_StatusForwarded ==
    (last.fn \in ForwardingFns /\ last.rc # "abort") =>
        /\ \A i \in 1..Len(last.calls) :
              (last.calls[i].rc # ESP_OK /\ ~BestEffort(last.fn, last.calls[i].f)) =>
                  (last.rc = last.calls[i].rc /\ i = Len(last.calls))
        /\ last.fn = "wifi_stop_softap" => last.rc = ESP_OK

C6_Witness ==
    /\ last.fn = "wifi_ap_init"
    /\ last.rc = ESP_ERR_NO_MEM
    /\ Len(last.calls) = 6
    /\ last.calls[1].rc = "ESP_FAIL"
    /\ last.calls[2].rc = "ESP_FAIL"

\* the bits a callback's xEventGroupSetBits made of the group: what the unblocked
\* task was handed, or what the group holds
Delivered == IF pc = "blocked" /\ pc' = "ready" THEN uxBits' ELSE event_bits'

\* C7: the got-IP callback sets CONNECTED_BIT and nothing else; the Wi-Fi callback on
\* STA_DISCONNECTED clears CONNECTED_BIT, sets STA_DISCONNECTED_BIT and makes
\* sg_wifi_sta_connected false; on every other id it leaves the bits and
\* sg_wifi_sta_connected as they are. So when both bits are set, got-IP was handled
\* after the last station-disconnected.
C7_EventTable ==
    /\ [][last'.fn = "ip_event_handler" =>
            /\ Delivered = event_bits \cup {CONNECTED_BIT}
            /\ UNCHANGED <<sg_wifi_sta_connected, initvars, regvars>>]_vars
    /\ [][last'.fn = "_wifi_event_handler_new" =>
            /\ last'.id \in WifiEventIds
            /\ IF last'.id = "WIFI_EVENT_STA_DISCONNECTED"
               THEN /\ Delivered = (event_bits \ {CONNECTED_BIT}) \cup {STA_DISCONNECTED_BIT}
                    /\ sg_wifi_sta_connected' = FALSE
               ELSE UNCHANGED <<event_bits, sg_wifi_sta_connected, pc, waitvars>>
            /\ UNCHANGED <<initvars, regvars>>]_vars
    /\ []((CONNECTED_BIT \in event_bits /\ STA_DISCONNECTED_BIT \in event_bits) => order = "gotip")

C7_Witness ==
    /\ last.fn = "ip_event_handler"
    /\ event_bits = {CONNECTED_BIT, STA_DISCONNECTED_BIT}
    /\ order = "gotip"

\* C8: sg_wifi_sta_connected is false in every reachable state, and so is what
\* is_wifi_sta_connected returns.
C8_NeverConnected ==
    /\ sg_wifi_sta_connected = FALSE
    /\ last.fn = "is_wifi_sta_connected" => last.rc = "false"

C8_Witness ==
    /\ last.fn = "is_wifi_sta_connected"
    /\ CONNECTED_BIT \in event_bits
    /\ STA_DISCONNECTED_BIT \notin event_bits
    /\ order = "gotip"

\* C9: ESPTOUCH_DONE_BIT is never set, so wifi_wait_event never returns
\* EVENT_SMARTCONFIG_STOP.
C9_NoSmartconfigStop ==
    /\ ESPTOUCH_DONE_BIT \notin event_bits
    /\ ESPTOUCH_DONE_BIT \notin uxBits
    /\ last.fn = "wifi_wait_event" =>
           last.rc \in {EVENT_WIFI_CONNECTED, EVENT_WIFI_DISCONNECTED, EVENT_WAIT_TIMEOUT, "abort"}

C9_Witness ==
    /\ last.fn = "wifi_start_smartconfig"
    /\ last.rc = ESP_OK
    /\ event_bits = {CONNECTED_BIT, STA_DISCONNECTED_BIT}
    /\ sinceRet = "event"

\* C10 as stated: when wifi_wait_event returns because a bit was set, all three bits
\* are clear, and if no callback ran since the previous wifi_wait_event returned it
\* returns EVENT_WAIT_TIMEOUT.
C10_ConsumedAtReturn ==
    [][WaitReturns =>
        /\ last'.rc # EVENT_WAIT_TIMEOUT => event_bits' \cap WaitMask = {}
        /\ sinceRet = "quiet" => last'.rc = EVENT_WAIT_TIMEOUT]_vars

\* C10 amended: the three bits are cleared at the moment the wait ends, that is when a
\* set bit unblocks the task or when the call reads the bits (at once, or after the
\* timeout); a wait that ends with no callback run since the previous wait ended
\* gives EVENT_WAIT_TIMEOUT. A callback that runs after the task was unblocked and
\* before it returned leaves its bit for the next call. wifi_ap_init and
\* wifi_sta_init past the one-time block, and wifi_stop_smartconfig, clear the bits too.
C10_ConsumedAtWaitEnd ==
    /\ [][pc = "blocked" /\ pc' = "ready" =>
            /\ event_bits' \cap WaitMask = {}
            /\ uxBits' \cap WaitMask # {}]_vars
    /\ [][WaitReturns /\ pc \in {"idle", "timedout"} =>
            /\ event_bits' \cap WaitMask = {}
            /\ sinceEnd = "quiet" => last'.rc = EVENT_WAIT_TIMEOUT]_vars
    /\ [][WaitReturns /\ pc = "ready" /\ sinceEnd = "quiet" => event_bits' \cap WaitMask = {}]_vars
    /\ [][last'.fn \in InitFns /\ sg_wifi_init_done' => event_bits' \cap WaitMask = {}]_vars
    /\ [][last'.fn = "wifi_stop_smartconfig" /\ last'.rc # "abort" =>
            event_bits' \cap WaitMask = {}]_vars

C10_Witness ==
    /\ last.fn = "wifi_wait_event"
    /\ last.rc = EVENT_WAIT_TIMEOUT
    /\ last.id = "at once"
    /\ sinceEnd = "quiet"
    /\ order = "disc"

====
